---------------------------- MODULE Spec2Model ----------------------------
(***************************************************************************)
(* Sampling baseline for filtered 100-nearest-neighbour search:            *)
(*   knn::ReadBin, knn::SaveKNN   (src/src/io.cpp)                         *)
(*   compare_with_id, main        (src/src/baseline.cpp)                   *)
(*                                                                         *)
(* Floats are modelled exactly by the integer 2*x ("half units"), so that  *)
(* the values used here (small integers and halves) keep the truncation    *)
(* of float -> integer casts observable.  A uint32_t is the pair of its    *)
(* 16-bit limbs <<hi, lo>> and its arithmetic is modulo 2^32.  Vectors     *)
(* are sequences; a C++ index k is position k+1.                           *)
(***************************************************************************)
EXTENDS Integers, Sequences, FiniteSets, TLC

----------------------------------------------------------------------------
(* Program constants *)

\* baseline.cpp:66  const int K_NEAREST = 100;
K_NEAREST == 100

\* io.cpp:20  const int K = 100;
K == 100

\* baseline.cpp:35  kSampleProportion = 0.001F, kept as the fraction 1/1000
kSampleProportionNum == 1
kSampleProportionDen == 1000

\* uint32_t (baseline.cpp:56) is kept as two 16-bit limbs <<hi, lo>>;
\* Limb is 2^16
Limb == 65536
HalfLimb == Limb \div 2

\* bytes of one uint32_t (io.cpp:25 sizeof(uint32_t)) and values of one byte
SIZEOF_UINT32 == 4
ByteRange == 256

----------------------------------------------------------------------------
(* Bounds of the model *)

\* Row length of a data point.  The program fixes 102 (baseline.cpp:34);
\* the model is checked with short rows: dims 0,1 are the attributes and
\* dims 2..NumDataDimensions-1 the feature vector.
NumDataDimensions == 4

\* The largest dataset size tried (the smallest N with floor(N*0.001) >= 1).
BigN == 1000

\* The number of queries a query file declares is 0..MaxQueries.
MaxQueries == 2

\* The number of result rows handed to SaveKNN on its own is 0..MaxRows.
MaxRows == 2

\* Dataset contents are generated from a seed in 0..MaxSeed.
MaxSeed == 0

\* Query rows are taken from QueryChoices starting at 2 * seed, for a seed
\* in 0..MaxQuerySeed.
MaxQuerySeed == 2

----------------------------------------------------------------------------
(* Numeric conversions *)

\* int -> float (exact for the small values used)
ToFloat(n) == 2 * n

\* static_cast<int32_t>(float) / static_cast<uint32_t>(float):
\* truncation toward zero
TruncToInt(h) == IF h >= 0 THEN h \div 2 ELSE -((-h) \div 2)

\* size_t / int -> uint32_t (n is a natural number below 2^31)
U32(n) == << (n \div Limb) % Limb, n % Limb >>

\* uint32_t - uint32_t, wrapping modulo 2^32
U32Sub(a, b) ==
  LET lo     == a[2] - b[2]
      borrow == IF lo < 0 THEN 1 ELSE 0
  IN << (a[1] - b[1] - borrow) % Limb, lo % Limb >>

\* uint32_t * m modulo 2^32, for a multiplier m below 2^15
U32MulSmall(a, m) ==
  LET lo == a[2] * m
  IN << (a[1] * m + (lo \div Limb)) % Limb, lo % Limb >>

\* a < b on uint32_t
U32Less(a, b) == a[1] < b[1] \/ (a[1] = b[1] /\ a[2] < b[2])

\* the uint32_t a used as an index into a vector of `len` elements
InBounds(a, len) == a[1] < HalfLimb /\ a[1] * Limb + a[2] < len
AsNat(a) == a[1] * Limb + a[2]

----------------------------------------------------------------------------
(* Input files.  A file is its 32-bit header count and the floats that     *)
(* follow it; `full` whole rows and then `tail` floats of a partial row.   *)

Shapes == {"exact", "short", "long"}

\* number of whole rows in the body of a file declaring `count` rows
FullRows(count, shape) ==
  CASE shape = "exact" -> count
    [] shape = "short" -> IF count = 0 THEN 0 ELSE count - 1
    [] shape = "long"  -> count + 1

\* floats of a trailing partial row
TailFloats(shape) == IF shape = "short" THEN 1 ELSE 0

\* value of column c of row j of the generated dataset (both 0-based):
\* column 0 is the categorical attribute, column 1 the scalar attribute
DataVal(seed, j, c) ==
  CASE c = 0 -> ToFloat(j % 2)
    [] c = 1 -> ToFloat(j % 3)
    [] OTHER -> ToFloat((j * (c + seed) + seed) % 5)

DataFlat(f) ==
  [k \in 1..(FullRows(f.count, f.shape) * NumDataDimensions + TailFloats(f.shape)) |->
     DataVal(f.seed, (k - 1) \div NumDataDimensions, (k - 1) % NumDataDimensions)]

\* query rows: <<kind, equality value, l_bound, r_bound, features...>>
QueryChoices ==
  << [kind |-> ToFloat(0), value |-> ToFloat(0), l |-> ToFloat(0), r |-> ToFloat(0), feat |-> ToFloat(0)],
     [kind |-> ToFloat(1), value |-> ToFloat(1), l |-> ToFloat(0), r |-> ToFloat(0), feat |-> ToFloat(1)],
     [kind |-> ToFloat(2), value |-> ToFloat(0), l |-> ToFloat(0), r |-> ToFloat(1), feat |-> ToFloat(2)],
     [kind |-> ToFloat(3), value |-> ToFloat(0), l |-> ToFloat(1), r |-> ToFloat(2), feat |-> ToFloat(3)],
     [kind |-> ToFloat(4), value |-> ToFloat(1), l |-> ToFloat(0), r |-> ToFloat(2), feat |-> ToFloat(1)],
     [kind |-> ToFloat(1), value |-> 3,          l |-> ToFloat(0), r |-> ToFloat(0), feat |-> 1] >>

NumQueryDimensions == NumDataDimensions + 2

QueryVal(base, j, c) ==
  LET q == QueryChoices[((2 * base + j) % Len(QueryChoices)) + 1]
  IN CASE c = 0 -> q.kind
       [] c = 1 -> q.value
       [] c = 2 -> q.l
       [] c = 3 -> q.r
       [] OTHER -> q.feat + ToFloat(c % 2)

QueryFlat(f) ==
  [k \in 1..(FullRows(f.count, f.shape) * NumQueryDimensions + TailFloats(f.shape)) |->
     QueryVal(f.seed, (k - 1) \div NumQueryDimensions, (k - 1) % NumQueryDimensions)]

NPointsChoices == {0, 1, K_NEAREST - 1, K_NEAREST, BigN}

DataFiles ==
  [exists : {TRUE}, count : NPointsChoices, shape : Shapes, seed : 0..MaxSeed]
  \cup [exists : {FALSE}, count : {0}, shape : {"exact"}, seed : {0}]

QueryFiles ==
  [exists : {TRUE}, count : 0..MaxQueries, shape : Shapes,
   seed : 0..MaxQuerySeed]
  \cup [exists : {FALSE}, count : {0}, shape : {"exact"}, seed : {0}]

----------------------------------------------------------------------------
(* knn::ReadBin *)

\* The rows ReadBin leaves in `data`: data.resize(N), then one row stored
\* per successful full-row read, at index 0, 1, 2, ...  `counter` is the
\* number of rows stored; a store at an index >= N is outside the vector.
ReadBin(count, flat, num_dimensions) ==
  LET nread == Len(flat) \div num_dimensions
      row(j) == SubSeq(flat, j * num_dimensions + 1, (j + 1) * num_dimensions)
  IN [data     |-> [j \in 1..count |-> IF j <= nread THEN row(j - 1) ELSE << >>],
      counter  |-> nread,
      overflow |-> nread > count]

----------------------------------------------------------------------------
(* The evaluator's steps (main, baseline.cpp)                              *)

\* A read outside a vector is undefined: when the program survives it, the
\* read yields some value g.
At(vec, k, g) == IF k < Len(vec) THEN vec[k + 1] ELSE g

\* nodes[id]; outside the vector it is undefined: a row of values g
NodeAt(nodes_, id, g) ==
  IF InBounds(id, Len(nodes_)) THEN nodes_[AsNat(id) + 1]
  ELSE [c \in 1..NumDataDimensions |-> g]

RECURSIVE SumSq(_, _, _, _)
SumSq(lhs, rhs, i, g) ==
  IF i >= Len(lhs) THEN 0
  ELSE LET diff == lhs[i + 1] - At(rhs, i, g)
       IN diff * diff + SumSq(lhs, rhs, i + 1, g)

\* compare_with_id: squared distance, starting at dimension 2
compare_with_id(lhs, rhs, g) == SumSq(lhs, rhs, 2, g)

\* query_vec: two zeros, then queries[i][4..]
QueryVec(query) ==
  << ToFloat(0), ToFloat(0) >> \o
  (IF Len(query) > 4 THEN SubSeq(query, 5, Len(query)) ELSE << >>)

\* auto sample_prop = n_points * static_cast<uint32_t>(sample_proportion)
SampleProp(n_points_) ==
  U32MulSmall(n_points_, kSampleProportionNum \div kSampleProportionDen)

\* the test of the scan loops for prefix index j
Qualifies(query_type_, value_, l_bound_, r_bound_, row, g) ==
  CASE query_type_ = 0 -> TRUE
    [] query_type_ = 1 -> At(row, 0, g) = ToFloat(value_)
    [] query_type_ = 2 -> At(row, 1, g) >= l_bound_ /\ At(row, 1, g) <= r_bound_
    [] query_type_ = 3 -> /\ At(row, 0, g) = ToFloat(value_)
                          /\ At(row, 1, g) >= l_bound_
                          /\ At(row, 1, g) <= r_bound_
    [] OTHER -> FALSE

\* the scan loops: the qualifying j < sample_prop, in ascending order
Candidates(query_type_, value_, l_bound_, r_bound_, nodes_, sample_prop_, g) ==
  LET n == IF sample_prop_[1] < HalfLimb THEN AsNat(sample_prop_) ELSE 0
      Test(j) == Qualifies(query_type_, value_, l_bound_, r_bound_,
                           NodeAt(nodes_, U32(j), g), g)
  IN SelectSeq([k \in 1..n |-> U32(k - 1)], LAMBDA id : Test(AsNat(id)))

\* the scan reads outside a row or outside nodes
ScanReadsOutside(query_type_, nodes_, sample_prop_) ==
  /\ query_type_ \in 1..3
  /\ sample_prop_[1] < HalfLimb
  /\ \E j \in 0..(AsNat(sample_prop_) - 1) :
       \/ j >= Len(nodes_)
       \/ Len(nodes_[j + 1]) < 2

\* the padding loop
Pad(knn_, n_points_) ==
  IF Len(knn_) < K_NEAREST
  THEN knn_ \o [sampled \in 1..(K_NEAREST - Len(knn_)) |->
                  U32Sub(n_points_, U32(sampled))]
  ELSE knn_

\* dists[j] = compare_with_id(nodes[knn[j]], query_vec)
Dists(knn_, nodes_, query_vec_, g) ==
  [j \in 1..Len(knn_) |-> compare_with_id(NodeAt(nodes_, knn_[j], g), query_vec_, g)]

\* computing the distances reads outside nodes or outside query_vec
DistReadsOutside(knn_, nodes_, query_vec_) ==
  \E j \in 1..Len(knn_) :
    \/ ~InBounds(knn_[j], Len(nodes_))
    \/ Len(nodes_[AsNat(knn_[j]) + 1]) > Len(query_vec_)

\* std::ranges::sort(ids, dists[lhs] < dists[rhs]): the positions 1..n
\* ordered by ascending distance.  The sort is not stable; `tie` picks the
\* order of the positions that have equal distance.
Reverse(seq) == [k \in 1..Len(seq) |-> seq[Len(seq) + 1 - k]]

RECURSIVE SortBuckets(_, _, _)
SortBuckets(keys, dists_, tie) ==
  IF keys = {} THEN << >>
  ELSE LET least  == CHOOSE d \in keys : \A e \in keys : d <= e
           bucket == SelectSeq([k \in 1..Len(dists_) |-> k],
                               LAMBDA a : dists_[a] = least)
       IN (IF tie = "first" THEN bucket ELSE Reverse(bucket))
          \o SortBuckets(keys \ {least}, dists_, tie)

SortIds(dists_, tie) ==
  SortBuckets({dists_[j] : j \in 1..Len(dists_)}, dists_, tie)

\* knn_sorted[j] = knn[ids[j]] for j < K_NEAREST
KnnSorted(knn_, ids) == [j \in 1..K_NEAREST |-> knn_[ids[j]]]

----------------------------------------------------------------------------
(* knn::SaveKNN *)

\* the bytes of one uint32_t in memory (least significant first)
WordBytes(w) ==
  << w[2] % ByteRange, w[2] \div ByteRange, w[1] % ByteRange, w[1] \div ByteRange >>

\* RowsBytes with the slip `knns[0]` for `knns[i]`: every write takes the
\* first row's buffer
RowsBytes_FirstRowOnly(knns, n, g) ==
  [b \in 1..(n * K * SIZEOF_UINT32) |->
     WordBytes(At(knns[1], ((b - 1) \div SIZEOF_UINT32) % K, g))[((b - 1) % SIZEOF_UINT32) + 1]]

\* ofs.write(knn.data(), K * sizeof(uint32_t)) for each of the first `n`
\* rows: K words taken from the start of the row's buffer; a word beyond
\* the row's end is a read outside the buffer and yields some word g.
RowsBytes(knns, n, g) ==
  [b \in 1..(n * K * SIZEOF_UINT32) |->
     LET row == knns[((b - 1) \div (K * SIZEOF_UINT32)) + 1]
         w   == ((b - 1) \div SIZEOF_UINT32) % K
     IN WordBytes(At(row, w, g))[((b - 1) % SIZEOF_UINT32) + 1]]

\* rows written before the first row shorter than K (all, if there is none)
RowsBeforeShort(knns) ==
  IF \E r \in 1..Len(knns) : Len(knns[r]) < K
  THEN (CHOOSE r \in 1..Len(knns) :
          /\ Len(knns[r]) < K
          /\ \A x \in 1..(r - 1) : Len(knns[x]) >= K) - 1
  ELSE Len(knns)

\* What one call can do.  status "ok": returned; "aborted": the assertion
\* failed (the stream is already open, so the file exists and is empty);
\* "crashed": an undefined read (front() of an empty vector, or a row
\* shorter than K) ended the process after `n` rows.
SaveKNN(knns) ==
  IF Len(knns) = 0
  THEN { [status |-> "ok", bytes |-> << >>], [status |-> "crashed", bytes |-> << >>] }
  ELSE IF Len(knns[1]) # K
  THEN { [status |-> "aborted", bytes |-> << >>] }
  ELSE IF RowsBeforeShort(knns) = Len(knns)
  THEN { [status |-> "ok", bytes |-> RowsBytes(knns, Len(knns), U32(0))] }
  ELSE { [status |-> "ok", bytes |-> RowsBytes(knns, Len(knns), g)] :
           g \in {U32(0), U32Sub(U32(0), U32(1))} }
       \cup { [status |-> "crashed", bytes |-> RowsBytes(knns, n, U32(0))] :
                n \in 0..RowsBeforeShort(knns) }

----------------------------------------------------------------------------
(* The program as a state machine *)

VARIABLES
  dataFile,     \* the dataset file (source_path)
  queryFile,    \* the query file (query_path)
  outFile,      \* the output file (knn_save_path)
  pc,           \* where main is
  nodes,        \* vector<vector<float>> nodes
  queries,      \* vector<vector<float>> queries
  counter,      \* ReadBin's counter when the last call returned
  n_points, n_queries, sample_prop,
  i,            \* the query loop's index
  query_type, value, l_bound, r_bound, query_vec,
  knn,          \* candidate knn of the current query
  dists,        \* distance of each candidate to query_vec
  knn_results   \* the rows pushed so far

vars ==
  << dataFile, queryFile, outFile, pc, nodes, queries, counter, n_points,
     n_queries, sample_prop, i, query_type, value, l_bound, r_bound,
     query_vec, knn, dists, knn_results >>

NoOutFile == [exists |-> FALSE, bytes |-> << >>]

\* values an undefined read may yield
GarbageVals == {ToFloat(0), ToFloat(7)}

\* how a step with an undefined read can end: the process dies, or the
\* read yields some value and the step goes on
Outcomes(undefined) ==
  IF undefined
  THEN {[kind |-> "crash", g |-> 0]} \cup [kind : {"survive"}, g : GarbageVals]
  ELSE {[kind |-> "ok", g |-> 0]}

Locals ==
  /\ nodes = << >> /\ queries = << >> /\ counter = 0
  /\ n_points = U32(0) /\ n_queries = U32(0) /\ sample_prop = U32(0)
  /\ i = 0
  /\ query_type = 0 /\ value = 0 /\ l_bound = 0 /\ r_bound = 0
  /\ query_vec = << >> /\ knn = << >> /\ dists = << >>

Init ==
  /\ dataFile \in DataFiles
  /\ queryFile \in QueryFiles
  /\ outFile = NoOutFile
  /\ pc = "read_nodes"
  /\ knn_results = << >>
  /\ Locals

\* baseline.cpp:46-47  knn::ReadBin(source_path, num_data_dimensions, nodes)
ReadNodes ==
  /\ pc = "read_nodes"
  /\ IF ~dataFile.exists
     THEN /\ pc' = "aborted"        \* assert(ifs.is_open())
          /\ UNCHANGED << nodes, counter >>
     ELSE LET r == ReadBin(dataFile.count, DataFlat(dataFile), NumDataDimensions)
          IN \E o \in Outcomes(r.overflow) :
               IF o.kind = "crash"
               THEN pc' = "crashed" /\ UNCHANGED << nodes, counter >>
               ELSE /\ nodes' = r.data
                    /\ counter' = r.counter
                    /\ pc' = "read_queries"
  /\ UNCHANGED << dataFile, queryFile, outFile, queries, n_points, n_queries,
                  sample_prop, i, query_type, value, l_bound, r_bound,
                  query_vec, knn, dists, knn_results >>

\* baseline.cpp:50-52  knn::ReadBin(query_path, num_query_dimensions, queries)
ReadQueries ==
  /\ pc = "read_queries"
  /\ IF ~queryFile.exists
     THEN /\ pc' = "aborted"
          /\ UNCHANGED << queries, counter >>
     ELSE LET r == ReadBin(queryFile.count, QueryFlat(queryFile), NumQueryDimensions)
          IN \E o \in Outcomes(r.overflow) :
               IF o.kind = "crash"
               THEN pc' = "crashed" /\ UNCHANGED << queries, counter >>
               ELSE /\ queries' = r.data
                    /\ counter' = r.counter
                    /\ pc' = "setup"
  /\ UNCHANGED << dataFile, queryFile, outFile, nodes, n_points, n_queries,
                  sample_prop, i, query_type, value, l_bound, r_bound,
                  query_vec, knn, dists, knn_results >>

\* baseline.cpp:56-59; nodes[0] of an empty vector is an undefined read
Setup ==
  /\ pc = "setup"
  /\ \E o \in Outcomes(Len(nodes) = 0) :
       IF o.kind = "crash"
       THEN pc' = "crashed" /\ UNCHANGED << n_points, n_queries, sample_prop >>
       ELSE /\ n_points' = U32(Len(nodes))
            /\ n_queries' = U32(Len(queries))
            /\ sample_prop' = SampleProp(U32(Len(nodes)))
            /\ pc' = "loop"
  /\ i' = 0
  /\ UNCHANGED << dataFile, queryFile, outFile, nodes, queries, counter,
                  query_type, value, l_bound, r_bound, query_vec, knn,
                  dists, knn_results >>

\* baseline.cpp:68-82  loop test, the query's fields, query_vec, empty knn
QueryHead ==
  /\ pc = "loop"
  /\ IF ~U32Less(U32(i), n_queries)
     THEN /\ pc' = "save"
          /\ UNCHANGED << query_type, value, l_bound, r_bound, query_vec, knn >>
     ELSE LET q == queries[i + 1]
          IN \E o \in Outcomes(Len(q) < 4) :
               IF o.kind = "crash"
               THEN /\ pc' = "crashed"
                    /\ UNCHANGED << query_type, value, l_bound, r_bound,
                                    query_vec, knn >>
               ELSE /\ query_type' = TruncToInt(At(q, 0, o.g))
                    /\ value' = TruncToInt(At(q, 1, o.g))
                    /\ l_bound' = At(q, 2, o.g)
                    /\ r_bound' = At(q, 3, o.g)
                    /\ query_vec' = QueryVec(q)
                    /\ knn' = << >>
                    /\ pc' = "scan"
  /\ UNCHANGED << dataFile, queryFile, outFile, nodes, queries, counter,
                  n_points, n_queries, sample_prop, i, dists, knn_results >>

\* baseline.cpp:84-108  the four scan loops
Scan ==
  /\ pc = "scan"
  /\ \E o \in Outcomes(ScanReadsOutside(query_type, nodes, sample_prop)) :
       IF o.kind = "crash"
       THEN pc' = "crashed" /\ UNCHANGED knn
       ELSE /\ knn' = Candidates(query_type, value, l_bound, r_bound, nodes,
                                 sample_prop, o.g)
            /\ pc' = "pad"
  /\ UNCHANGED << dataFile, queryFile, outFile, nodes, queries, counter,
                  n_points, n_queries, sample_prop, i, query_type, value,
                  l_bound, r_bound, query_vec, dists, knn_results >>

\* baseline.cpp:110-118  fill up to K_NEAREST with the last nodes
PadStep ==
  /\ pc = "pad"
  /\ knn' = Pad(knn, n_points)
  /\ pc' = "dist"
  /\ UNCHANGED << dataFile, queryFile, outFile, nodes, queries, counter,
                  n_points, n_queries, sample_prop, i, query_type, value,
                  l_bound, r_bound, query_vec, dists, knn_results >>

\* baseline.cpp:120-125  dists[j] = compare_with_id(nodes[knn[j]], query_vec)
Distances ==
  /\ pc = "dist"
  /\ \E o \in Outcomes(DistReadsOutside(knn, nodes, query_vec)) :
       IF o.kind = "crash"
       THEN pc' = "crashed" /\ UNCHANGED dists
       ELSE /\ dists' = Dists(knn, nodes, query_vec, o.g)
            /\ pc' = "rank"
  /\ UNCHANGED << dataFile, queryFile, outFile, nodes, queries, counter,
                  n_points, n_queries, sample_prop, i, query_type, value,
                  l_bound, r_bound, query_vec, knn, knn_results >>

\* baseline.cpp:127-139  sort ids by distance, first K_NEAREST, push_back
Rank ==
  /\ pc = "rank"
  /\ \E tie \in {"first", "last"} :
       knn_results' = Append(knn_results, KnnSorted(knn, SortIds(dists, tie)))
  /\ i' = i + 1
  /\ pc' = "loop"
  /\ UNCHANGED << dataFile, queryFile, outFile, nodes, queries, counter,
                  n_points, n_queries, sample_prop, query_type, value,
                  l_bound, r_bound, query_vec, knn, dists >>

\* baseline.cpp:143  knn::SaveKNN(knn_results, knn_save_path)
Save ==
  /\ pc = "save"
  /\ \E r \in SaveKNN(knn_results) :
       /\ outFile' = [exists |-> TRUE, bytes |-> r.bytes]
       /\ pc' = IF r.status = "ok" THEN "done" ELSE r.status
  /\ UNCHANGED << dataFile, queryFile, nodes, queries, counter, n_points,
                  n_queries, sample_prop, i, query_type, value, l_bound,
                  r_bound, query_vec, knn, dists, knn_results >>

Next ==
  \/ ReadNodes
  \/ ReadQueries
  \/ Setup
  \/ QueryHead
  \/ Scan
  \/ PadStep
  \/ Distances
  \/ Rank
  \/ Save

Spec == Init /\ [][Next]_vars

----------------------------------------------------------------------------
(* SaveKNN on its own: any sequence of up to MaxRows rows, of K - 1, K or  *)
(* K + 1 IDs each                                                          *)

SaveRow(len, first, step) ==
  [k \in 1..len |-> U32Sub(first, U32((k - 1) * step))]

SaveRows ==
  { SaveRow(len, first, step) :
      len \in {K - 1, K, K + 1}, first \in {U32(0), U32(K_NEAREST - 1)},
      step \in {0, 1} }

SaveInputs == UNION { [1..n -> SaveRows] : n \in 0..MaxRows }

NoInFile == [exists |-> FALSE, count |-> 0, shape |-> "exact", seed |-> 0]

InitSave ==
  /\ dataFile = NoInFile
  /\ queryFile = NoInFile
  /\ outFile = NoOutFile
  /\ pc = "save"
  /\ knn_results \in SaveInputs
  /\ Locals

SpecSave == InitSave /\ [][Save]_vars

----------------------------------------------------------------------------
(* Vocabulary of the properties *)

\* both input files exist and hold exactly the rows their headers declare,
\* and the dataset has at least one point
WellFormedInputs ==
  /\ dataFile.exists /\ dataFile.shape = "exact" /\ dataFile.count >= 1
  /\ queryFile.exists /\ queryFile.shape = "exact"

\* main is inside or past the query loop
Evaluating == pc \in {"loop", "scan", "pad", "dist", "rank", "save", "done"}

\* floor(N * sampleProportion) with sampleProportion = 0.001
FloorSample(n) == (n * kSampleProportionNum) \div kSampleProportionDen

\* the file read back in rows of K words
WordAt(bytes, w) ==
  << bytes[SIZEOF_UINT32 * w + 3] + ByteRange * bytes[SIZEOF_UINT32 * w + 4],
     bytes[SIZEOF_UINT32 * w + 1] + ByteRange * bytes[SIZEOF_UINT32 * w + 2] >>

ReadBackRows(bytes) ==
  [r \in 1..(Len(bytes) \div (K * SIZEOF_UINT32)) |->
     [k \in 1..K |-> WordAt(bytes, (r - 1) * K + (k - 1))]]

\* id is the dataset index n (an integer, possibly negative)
IsDatasetId(id, n) == n >= 0 /\ InBounds(id, Len(nodes)) /\ AsNat(id) = n

\* distance of dataset point id to the feature vector of query number r
DistanceTo(id, r) ==
  compare_with_id(nodes[AsNat(id) + 1], QueryVec(queries[r]), 0)

\* the number of times id occurs in seq
Occurrences(seq, id) == Cardinality({k \in 1..Len(seq) : seq[k] = id})

----------------------------------------------------------------------------
(* C1: for every dataset with N >= 1 points and every query, the evaluator *)
(* appends exactly one result row per query, in query order, and every     *)
(* result row holds exactly 100 point IDs: the run never dies while        *)
(* queries remain, i rows exist after i queries, and all rows are pushed   *)
(* when the loop is left.                                                  *)
C1_OneRowOf100PerQuery ==
  WellFormedInputs =>
     /\ pc = "crashed" => ~U32Less(U32(i), U32(Len(queries)))
     /\ Evaluating => /\ Len(knn_results) = i
                      /\ \A r \in 1..Len(knn_results) :
                           Len(knn_results[r]) = K_NEAREST
     /\ pc \in {"save", "done"} => Len(knn_results) = Len(queries)

(* C2: every result row is the padded candidate list ordered by            *)
(* non-decreasing squared distance over dimensions 2..D-1: each ID of the  *)
(* row is a dataset point, consecutive IDs have non-decreasing distance    *)
(* to the query, and the row of the query just ranked holds the 100        *)
(* closest candidates (here: all of them, each as often as in the list).   *)
C2_RowSortedByDistance ==
  WellFormedInputs =>
     /\ \A r \in 1..Len(knn_results) :
          /\ \A k \in 1..K_NEAREST :
               InBounds(knn_results[r][k], Len(nodes))
          /\ \A k \in 1..(K_NEAREST - 1) :
               DistanceTo(knn_results[r][k], r) <= DistanceTo(knn_results[r][k + 1], r)
     /\ (pc = "loop" /\ i >= 1) =>
          \A k \in 1..Len(knn) :
            Occurrences(knn_results[i], knn[k]) = Occurrences(knn, knn[k])

(* C3: the number of dataset indices scanned per query is floor(N * 0.001),*)
(* and for a kind-0 query the candidates before padding are exactly the    *)
(* IDs 0 .. floor(N * 0.001) - 1.                                          *)
C3_SamplePrefixIsFloor ==
  (WellFormedInputs /\ Evaluating) =>
     /\ InBounds(sample_prop, Len(nodes) + 1)
     /\ AsNat(sample_prop) = FloorSample(Len(nodes))
     /\ (pc = "pad" /\ queries[i + 1][1] = ToFloat(0)) =>
          knn = [k \in 1..FloorSample(Len(nodes)) |-> U32(k - 1)]

(* C4: once a query's scan is done, every index j of the sample prefix is  *)
(* a candidate if and only if its point passes the query's predicate       *)
(* (kind 0: always; kind 1: point[j][0] equals query field 1 as floats;    *)
(* kind 2: l_bound <= point[j][1] <= r_bound; kind 3: both), and the       *)
(* candidates are in ascending index order.                                *)
C4_CandidateIffPredicate ==
  (WellFormedInputs /\ pc = "pad") =>
     LET q      == queries[i + 1]
         eq(j)  == nodes[j + 1][1] = q[2]
         rng(j) == q[3] <= nodes[j + 1][2] /\ nodes[j + 1][2] <= q[4]
         passes(j) == CASE q[1] = ToFloat(0) -> TRUE
                        [] q[1] = ToFloat(1) -> eq(j)
                        [] q[1] = ToFloat(2) -> rng(j)
                        [] q[1] = ToFloat(3) -> eq(j) /\ rng(j)
                        [] OTHER -> FALSE
     IN /\ \A j \in 0..(FloorSample(Len(nodes)) - 1) :
             (\E k \in 1..Len(knn) : knn[k] = U32(j)) <=> passes(j)
        /\ \A k \in 1..(Len(knn) - 1) : U32Less(knn[k], knn[k + 1])

(* C5: the padding step turns a list of q < 100 candidates into exactly    *)
(* 100 entries, the q candidates followed by the dataset IDs N-1, N-2,     *)
(* ..., N-(100-q) in that order, and leaves a list of 100 or more alone.   *)
C5_PaddingCountsDownFromLast ==
  [][ (WellFormedInputs /\ pc = "pad") =>
        IF Len(knn) < K_NEAREST
        THEN /\ Len(knn') = K_NEAREST
             /\ SubSeq(knn', 1, Len(knn)) = knn
             /\ \A s \in 1..(K_NEAREST - Len(knn)) :
                  IsDatasetId(knn'[Len(knn) + s], Len(nodes) - s)
        ELSE knn' = knn ]_vars

(* C6: ReadBin stops at the declared row count: when it has returned, the  *)
(* loaded sequence has exactly the declared number of rows and no row was  *)
(* stored at an index >= that count, also for a file holding more rows;    *)
(* and reading such a file does not end the process.                       *)
C6_ReadStopsAtDeclaredCount ==
  (dataFile.exists /\ dataFile.shape = "long" /\ dataFile.count >= 1) =>
     /\ pc # "crashed"
     /\ pc = "read_queries" => /\ Len(nodes) = dataFile.count
                               /\ counter <= dataFile.count

(* C7: after ReadBin returns, every loaded row has exactly `dimensions`    *)
(* floats: every Point has the data row length and every Query the query   *)
(* row length, whatever the files hold.                                    *)
C7_LoadedRowsAreFull ==
  /\ pc \notin {"read_nodes", "aborted", "crashed"} =>
       \A j \in 1..Len(nodes) : Len(nodes[j]) = NumDataDimensions
  /\ Evaluating =>
       \A j \in 1..Len(queries) : Len(queries[j]) = NumQueryDimensions

(* C8: for R rows of 100 IDs each SaveKNN returns having written exactly   *)
(* R * 100 32-bit words and nothing else, which read back in rows of 100   *)
(* are the same rows in the same order; when the first row does not have   *)
(* exactly 100 entries it fails by assertion.                              *)
C8_SaveRoundTrips ==
  pc \in {"done", "aborted", "crashed"} =>
     /\ (Len(knn_results) >= 1 /\ Len(knn_results[1]) # K) => pc = "aborted"
     /\ (\A r \in 1..Len(knn_results) : Len(knn_results[r]) = K) =>
          /\ outFile.exists
          /\ Len(outFile.bytes) = Len(knn_results) * K * SIZEOF_UINT32
          /\ ReadBackRows(outFile.bytes) = knn_results
          /\ Len(knn_results) >= 1 => pc = "done"

\* two different rows of 100 IDs, one of them with IDs above 2^16, were
\* saved and SaveKNN returned
C8_Witness ==
  /\ pc = "done"
  /\ Len(knn_results) = 2
  /\ Len(knn_results[1]) = K /\ Len(knn_results[2]) = K
  /\ knn_results[1] # knn_results[2]
  /\ \E k \in 1..K : knn_results[2][k][1] > 0
  /\ Len(outFile.bytes) = 2 * K * SIZEOF_UINT32

(* C9: for a query whose kind field is not 0, 1, 2 or 3 no prefix point    *)
(* becomes a candidate, and its result row is made of the 100 padding IDs  *)
(* N-1 .. N-100: the candidate list is empty after the scan, it holds      *)
(* exactly those dataset IDs after padding, and the query gets its row.    *)
C9_UnknownKindOnlyPadding ==
  (/\ WellFormedInputs
   /\ pc \in {"scan", "pad", "dist", "rank", "crashed"}
   /\ i < Len(queries)
   /\ queries[i + 1][1] \notin {ToFloat(0), ToFloat(1), ToFloat(2), ToFloat(3)}) =>
     /\ pc # "crashed"
     /\ pc = "pad" => knn = << >>
     /\ pc \in {"dist", "rank"} =>
          /\ Len(knn) = K_NEAREST
          /\ \A s \in 1..K_NEAREST : IsDatasetId(knn[s], Len(nodes) - s)

(* C10: for every dataset with N >= 1 points, every ID in the candidate    *)
(* list and in the result rows is a dataset index in 0..N-1.               *)
C10_IdsAreDatasetIndices ==
  (WellFormedInputs /\ Evaluating) =>
     /\ pc \in {"pad", "dist", "rank"} =>
          \A j \in 1..Len(knn) : InBounds(knn[j], Len(nodes))
     /\ \A r \in 1..Len(knn_results) : \A k \in 1..Len(knn_results[r]) :
          InBounds(knn_results[r][k], Len(nodes))

============================================================================
